---- MODULE Spec2Model ----
(***************************************************************************)
(* Model of the shadow-admin finder (src/main.py).                         *)
(*                                                                         *)
(* Two entry points are modelled:                                          *)
(*   Spec      find_shadow_admins called directly with arbitrary           *)
(*             arguments, possibly several times on the same arguments;    *)
(*   MainSpec  main(): load both documents, validate, evaluate, save,      *)
(*             display.                                                    *)
(*                                                                         *)
(* Python values are records [kind, elems]: kind is the Python type name,  *)
(* elems the elements of a list.  A dict of users is [kind, items] with    *)
(* items the sequence of (user, permissions) pairs in insertion order.     *)
(* Permissions are strings, so Python's == on them is plain equality.      *)
(* A users dict holds at most two of the three names.                      *)
(***************************************************************************)
EXTENDS Naturals, Sequences, FiniteSets

\* ---------------------------------------------------------------- bounds
MaxPerms == 2
MaxCalls == 2

\* ------------------------------------------------------- input universe
Perms == {"/etc/shadow", "/etc/sudoers"}
Names == {"alice", "bob", "carol"}
NonListKinds == {"str", "NoneType"}
NonDictKinds == {"list", "NoneType"}

\* ------------------------------------------------------- Python values
None == [kind |-> "NoneType", elems |-> <<>>]
Pending == [kind |-> "pending", elems |-> <<>>]
PyList(s) == [kind |-> "list", elems |-> s]
PyDict(its) == [kind |-> "dict", items |-> its]
NonDict(k) == [kind |-> k, items |-> <<>>]
NoneDoc == NonDict("NoneType")

SeqsUpTo(S, n) == UNION {[1..k -> S] : k \in 0..n}
PermLists == {PyList(s) : s \in SeqsUpTo(Perms, MaxPerms)}
UserValues == PermLists \cup {[kind |-> k, elems |-> <<>>] : k \in NonListKinds}
AdminValues == UserValues
Entry(u, v) == [user |-> u, permissions |-> v]
UserDicts ==
    {PyDict(<<>>)}
    \cup {PyDict(<<Entry(u, v)>>) : u \in Names, v \in UserValues}
    \cup {PyDict(<<Entry(u1, v1), Entry(u2, v2)>>) :
            <<u1, u2, v1, v2>> \in {t \in Names \X Names \X UserValues \X UserValues : t[1] # t[2]}}
UsersValues == UserDicts \cup {NonDict(k) : k \in NonDictKinds}

VARIABLES
    user_permissions,
    effective_admin_permissions,
    pc,
    i,
    shadow_admins,
    log,
    mark,
    result,
    exception,
    calls,
    prev_result,
    main_pc,
    user_file,
    admin_file,
    output_file,
    fs_writable,
    user_permissions_data,
    effective_admin_permissions_data,
    effects,
    written,
    console,
    exit_status

evars == <<user_permissions, effective_admin_permissions, pc, i, shadow_admins,
           result, exception, calls, prev_result>>
mainvars == <<main_pc, user_file, admin_file, output_file, fs_writable,
              user_permissions_data, effective_admin_permissions_data,
              effects, written, console, exit_status>>
vars == <<evars, log, mark, mainvars>>

\* -------------------------------------------------- find_shadow_admins
IsDict(v) == v.kind = "dict"
IsList(v) == v.kind = "list"

\* `x in s` on a list: linear scan, first equal element wins
RECURSIVE PyIn(_, _)
PyIn(x, s) ==
    IF s = <<>> THEN FALSE
    ELSE IF Head(s) = x THEN TRUE
    ELSE PyIn(x, Tail(s))

\* all(perm in permissions for perm in admin): stops at the first miss
RECURSIVE PyAllIn(_, _)
PyAllIn(admin, permissions) ==
    IF admin = <<>> THEN TRUE
    ELSE IF ~PyIn(Head(admin), permissions) THEN FALSE
    ELSE PyAllIn(Tail(admin), permissions)

RECURSIVE PyAnyIn(_, _)
PyAnyIn(admin, permissions) ==
    IF admin = <<>> THEN FALSE
    ELSE IF PyIn(Head(admin), permissions) THEN TRUE
    ELSE PyAnyIn(Tail(admin), permissions)

Qualifies_any(permissions, admin) == PyAnyIn(admin, permissions)
Qualifies(permissions, admin) == PyAllIn(admin, permissions)

Signal(level, what, who) == [level |-> level, what |-> what, who |-> who]

CheckInputs_no_dict_check(u, a) ==
    IF ~IsList(a) THEN "bad_admin"
    ELSE "ok"
CheckInputs(u, a) ==
    IF ~IsDict(u) THEN "bad_users"
    ELSE IF ~IsList(a) THEN "bad_admin"
    ELSE "ok"

IsPermissionList_or_str(v) == v.kind \in {"list", "str"}
IsPermissionList(v) == v.kind = "list"

SkipSignals_silent(user) == <<>>
SkipSignals(user) == <<Signal("WARNING", "skipping", user)>>

AppendUser_front(admins, user) == <<user>> \o admins
AppendUser(admins, user) == Append(admins, user)

\* lines 69-77: the local list and the two top-level type checks
FsaEnter ==
    /\ pc = "entry"
    /\ shadow_admins' = <<>>
    /\ LET c == CheckInputs(user_permissions, effective_admin_permissions) IN
        IF c = "bad_users" THEN
            /\ log' = Append(log, Signal("ERROR", "invalid_users", ""))
            /\ result' = PyList(<<>>)
            /\ pc' = "returned"
            /\ UNCHANGED <<i, exception>>
        ELSE IF c = "bad_admin" THEN
            /\ log' = Append(log, Signal("ERROR", "invalid_admin", ""))
            /\ result' = PyList(<<>>)
            /\ pc' = "returned"
            /\ UNCHANGED <<i, exception>>
        ELSE IF ~IsDict(user_permissions) THEN
            \* .items() on a value that is no dict
            /\ exception' = "AttributeError"
            /\ pc' = "raised"
            /\ UNCHANGED <<i, log, result>>
        ELSE
            /\ pc' = "loop"
            /\ i' = 1
            /\ UNCHANGED <<log, result, exception>>
    /\ UNCHANGED <<user_permissions, effective_admin_permissions, mark, calls,
                   prev_result, mainvars>>

\* lines 80-86: the body of the loop for one (user, permissions) pair
LoopBody(admins, e, admin) ==
    IF ~IsPermissionList(e.permissions) THEN
        [admins |-> admins, signals |-> SkipSignals(e.user)]
    ELSE IF Qualifies(e.permissions.elems, admin.elems) THEN
        [admins |-> AppendUser(admins, e.user),
         signals |-> <<Signal("INFO", "shadow_admin", e.user)>>]
    ELSE [admins |-> admins, signals |-> <<>>]

FsaIter_popping ==
    /\ pc = "loop"
    /\ i <= Len(user_permissions.items)
    /\ LET b == LoopBody(shadow_admins, user_permissions.items[i],
                         effective_admin_permissions) IN
        /\ shadow_admins' = b.admins
        /\ log' = log \o b.signals
        /\ effective_admin_permissions' =
              IF b.admins # shadow_admins THEN PyList(<<>>)
              ELSE effective_admin_permissions
    /\ i' = i + 1
    /\ UNCHANGED <<user_permissions, pc, mark, result,
                   exception, calls, prev_result, mainvars>>

\* lines 79-86: one iteration of the loop over user_permissions.items()
FsaIter ==
    /\ pc = "loop"
    /\ i <= Len(user_permissions.items)
    /\ LET b == LoopBody(shadow_admins, user_permissions.items[i],
                         effective_admin_permissions) IN
        /\ shadow_admins' = b.admins
        /\ log' = log \o b.signals
    /\ i' = i + 1
    /\ UNCHANGED <<user_permissions, effective_admin_permissions, pc, mark, result,
                   exception, calls, prev_result, mainvars>>

\* lines 69-88 as a function of its arguments: the returned list
RECURSIVE RunLoop(_, _, _)
RunLoop(items, admins, admin) ==
    IF items = <<>> THEN admins
    ELSE RunLoop(Tail(items), LoopBody(admins, Head(items), admin).admins, admin)

FindShadowAdmins(u, a) ==
    IF CheckInputs(u, a) # "ok" THEN PyList(<<>>)
    ELSE PyList(RunLoop(u.items, <<>>, a))

\* line 88
FsaReturn ==
    /\ pc = "loop"
    /\ i > Len(user_permissions.items)
    /\ result' = PyList(shadow_admins)
    /\ pc' = "returned"
    /\ UNCHANGED <<user_permissions, effective_admin_permissions, i, shadow_admins,
                   log, mark, exception, calls, prev_result, mainvars>>

\* a caller invoking the function again on the same two objects
CallAgain ==
    /\ main_pc = "off"
    /\ pc = "returned"
    /\ calls < MaxCalls
    /\ calls' = calls + 1
    /\ prev_result' = result
    /\ result' = Pending
    /\ mark' = Len(log)
    /\ pc' = "entry"
    /\ UNCHANGED <<user_permissions, effective_admin_permissions, i, shadow_admins,
                   log, exception, mainvars>>

Unbound == NonDict("unbound")
NoFile == [status |-> "none", data |-> NoneDoc]

MainOff ==
    /\ main_pc = "off"
    /\ user_file = NoFile
    /\ admin_file = NoFile
    /\ output_file = "<None>"
    /\ fs_writable = FALSE
    /\ user_permissions_data = Unbound
    /\ effective_admin_permissions_data = Unbound
    /\ effects = <<>>
    /\ written = Pending
    /\ console = Pending
    /\ exit_status = 0

Init ==
    /\ user_permissions \in UsersValues
    /\ effective_admin_permissions \in AdminValues
    /\ pc = "entry"
    /\ i = 0
    /\ shadow_admins = <<>>
    /\ log = <<>>
    /\ mark = 0
    /\ result = Pending
    /\ exception = "none"
    /\ calls = 1
    /\ prev_result = Pending
    /\ MainOff

\* ------------------------------------------------------------- main()
\* args.output_file: "<None>" stands for an absent --output-file
OutputArgs == {"<None>", "", "results.txt"}
Truthy(o) == o \notin {"<None>", ""}

AdminDoc(k, has, v) == [kind |-> k, has_permissions |-> has, permissions |-> v]
File(st, d) == [status |-> st, data |-> d]

SampleUsers == {
    PyDict(<<>>),
    PyDict(<<Entry("alice", PyList(<<"/etc/shadow", "/etc/sudoers">>)),
             Entry("bob", PyList(<<"/etc/shadow">>))>>),
    PyDict(<<Entry("carol", [kind |-> "str", elems |-> <<>>])>>),
    NonDict("list"),
    NonDict("str"),
    NoneDoc }
SamplePermissions == {
    PyList(<<>>),
    PyList(<<"/etc/shadow">>),
    PyList(<<"/etc/shadow", "/etc/sudoers">>),
    [kind |-> "str", elems |-> <<>>],
    None }
UserFiles ==
    {File("missing", NoneDoc), File("badjson", NoneDoc), File("unreadable", NoneDoc)}
    \cup {File("ok", d) : d \in SampleUsers}
AdminFiles ==
    {File("missing", AdminDoc("NoneType", FALSE, None)),
     File("badjson", AdminDoc("NoneType", FALSE, None)),
     File("unreadable", AdminDoc("NoneType", FALSE, None)),
     File("ok", AdminDoc("NoneType", FALSE, None)),
     File("ok", AdminDoc("list", FALSE, None)),
     File("ok", AdminDoc("str", FALSE, None)),
     File("ok", AdminDoc("dict", FALSE, None))}
    \cup {File("ok", AdminDoc("dict", TRUE, v)) : v \in SamplePermissions}

\* lines 42-54: the parsed document, or None with an error signal
LoadData(file) ==
    IF file.status = "ok" THEN file.data
    ELSE [file.data EXCEPT !.kind = "NoneType"]
LoadSignals(file) ==
    IF file.status = "missing" THEN <<Signal("ERROR", "file_not_found", "")>>
    ELSE IF file.status = "badjson" THEN <<Signal("ERROR", "invalid_json", "")>>
    ELSE IF file.status = "unreadable" THEN <<Signal("ERROR", "load_error", "")>>
    ELSE <<>>

IsNone(v) == v.kind = "NoneType"

LoadFailed_both(u, a) == IsNone(u) /\ IsNone(a)
LoadFailed(u, a) == IsNone(u) \/ IsNone(a)

\* dict.get("permissions"): the value, or None when the key is absent
GetPermissions(doc) == IF doc.has_permissions THEN doc.permissions ELSE None

ShouldSave_nonempty(o, results) == Truthy(o) /\ results # <<>>
ShouldSave(o, results) == Truthy(o)

\* lines 137-138
MainLoad ==
    /\ main_pc = "start"
    /\ user_permissions_data' = LoadData(user_file)
    /\ effective_admin_permissions_data' = LoadData(admin_file)
    /\ log' = log \o LoadSignals(user_file) \o LoadSignals(admin_file)
    /\ main_pc' = "loaded"
    /\ UNCHANGED <<evars, mark, user_file, admin_file, output_file, fs_writable,
                   effects, written, console, exit_status>>

\* lines 141-151: the None check, the `permissions` check, the call
MainValidate ==
    /\ main_pc = "loaded"
    /\ IF LoadFailed(user_permissions_data, effective_admin_permissions_data) THEN
            /\ log' = Append(log, Signal("ERROR", "load_failed", ""))
            /\ exit_status' = 1
            /\ main_pc' = "exited"
            /\ UNCHANGED <<evars, mark>>
       ELSE IF ~IsDict(effective_admin_permissions_data) THEN
            \* .get on a value that is no dict: uncaught, the interpreter exits 1
            /\ exception' = "AttributeError"
            /\ exit_status' = 1
            /\ main_pc' = "exited"
            /\ UNCHANGED <<user_permissions, effective_admin_permissions, pc, i,
                           shadow_admins, result, calls, prev_result, log, mark>>
       ELSE IF ~IsList(GetPermissions(effective_admin_permissions_data)) THEN
            /\ log' = Append(log, Signal("ERROR", "invalid_admin_format", ""))
            /\ exit_status' = 1
            /\ main_pc' = "exited"
            /\ UNCHANGED <<evars, mark>>
       ELSE
            /\ user_permissions' = user_permissions_data
            /\ effective_admin_permissions' = GetPermissions(effective_admin_permissions_data)
            /\ pc' = "entry"
            /\ calls' = calls + 1
            /\ mark' = Len(log)
            /\ main_pc' = "evaluating"
            /\ UNCHANGED <<i, shadow_admins, result, exception, prev_result, log, exit_status>>
    /\ effects' = IF main_pc' = "evaluating" THEN Append(effects, "evaluate") ELSE effects
    /\ UNCHANGED <<user_file, admin_file, output_file, fs_writable,
                   user_permissions_data, effective_admin_permissions_data,
                   written, console>>

\* lines 151-154 with save_results (lines 99-105)
MainSave ==
    /\ main_pc = "evaluating"
    /\ pc = "returned"
    /\ IF ShouldSave(output_file, result.elems) THEN
            IF fs_writable THEN
                /\ written' = result
                /\ log' = Append(log, Signal("INFO", "results_saved", ""))
                /\ effects' = Append(effects, "save")
            ELSE
                /\ log' = Append(log, Signal("ERROR", "save_failed", ""))
                /\ effects' = Append(effects, "save_failed")
                /\ UNCHANGED written
       ELSE UNCHANGED <<written, log, effects>>
    /\ main_pc' = "display"
    /\ UNCHANGED <<evars, mark, user_file, admin_file, output_file, fs_writable,
                   user_permissions_data, effective_admin_permissions_data,
                   console, exit_status>>

\* line 156 with display_results (lines 115-126), then the normal exit
MainDisplay ==
    /\ main_pc = "display"
    /\ console' = IF result.elems = <<>>
                  THEN [kind |-> "notice", elems |-> <<>>]
                  ELSE [kind |-> "table", elems |-> result.elems]
    /\ effects' = Append(effects, "display")
    /\ exit_status' = 0
    /\ main_pc' = "exited"
    /\ UNCHANGED <<evars, log, mark, user_file, admin_file, output_file, fs_writable,
                   user_permissions_data, effective_admin_permissions_data, written>>

MainInit ==
    /\ user_permissions = Unbound
    /\ effective_admin_permissions = Pending
    /\ pc = "idle"
    /\ i = 0
    /\ shadow_admins = <<>>
    /\ log = <<>>
    /\ mark = 0
    /\ result = Pending
    /\ exception = "none"
    /\ calls = 0
    /\ prev_result = Pending
    /\ main_pc = "start"
    /\ user_file \in UserFiles
    /\ admin_file \in AdminFiles
    /\ output_file \in OutputArgs
    /\ fs_writable \in BOOLEAN
    /\ user_permissions_data = Unbound
    /\ effective_admin_permissions_data = Unbound
    /\ effects = <<>>
    /\ written = Pending
    /\ console = Pending
    /\ exit_status = 0

MainNext == MainLoad \/ MainValidate \/ FsaEnter \/ FsaIter \/ FsaReturn \/ MainSave \/ MainDisplay

MainSpec == MainInit /\ [][MainNext]_vars

Next == FsaEnter \/ FsaIter \/ FsaReturn \/ CallAgain

Spec == Init /\ [][Next]_vars

\* the function runs synchronously to its return: no step waits on anything
FairSpec == Spec /\ WF_vars(FsaEnter \/ FsaIter \/ FsaReturn)

\* ------------------------------------------------------------ properties
SetOf(s) == {s[k] : k \in 1..Len(s)}
Returned == pc = "returned"
Items == user_permissions.items
AdminElems == effective_admin_permissions.elems
ValidTop == IsDict(user_permissions) /\ IsList(effective_admin_permissions)
ListEntries == {k \in 1..Len(Items) : Items[k].permissions.kind = "list"}
OtherEntries == {k \in 1..Len(Items) : Items[k].permissions.kind # "list"}
ResultSet == SetOf(result.elems)
Keys == [k \in 1..Len(Items) |-> Items[k].user]

\* C1: with a dict of users and a list of admin permissions, a user whose
\* value is a list is in the returned list iff the set of admin permissions
\* is included in the set of that user's permissions.
C1_SubsetIff ==
    (Returned /\ ValidTop) =>
        \A k \in ListEntries :
            (Items[k].user \in ResultSet)
                <=> (SetOf(AdminElems) \subseteq SetOf(Items[k].permissions.elems))

\* one user holds the admin permissions in another order and qualifies,
\* another holds a duplicated permission and does not
C1_Witness ==
    /\ Returned /\ ValidTop
    /\ Cardinality(SetOf(AdminElems)) = 2
    /\ \E k1, k2 \in ListEntries :
        /\ Items[k1].user \in ResultSet
        /\ Items[k1].permissions.elems # AdminElems
        /\ Items[k2].user \notin ResultSet
        /\ Len(Items[k2].permissions.elems) = 2
        /\ Cardinality(SetOf(Items[k2].permissions.elems)) = 1

\* C2: with an empty list of admin permissions the returned users are
\* exactly the users whose value is a list.
C2_EmptyAdminAll ==
    (Returned /\ IsDict(user_permissions) /\ effective_admin_permissions = PyList(<<>>)) =>
        /\ ResultSet = {Items[k].user : k \in ListEntries}
        /\ Len(result.elems) = Cardinality(ListEntries)

C2_Witness ==
    /\ Returned /\ IsDict(user_permissions)
    /\ effective_admin_permissions = PyList(<<>>)
    /\ Len(result.elems) = 2
    /\ \E k \in ListEntries : Items[k].permissions.elems = <<>>

\* C3: the function never raises; what it returns is a list, the empty list
\* when users is no dict or the admin permissions are no list; and every
\* call returns.
C3_Safe ==
    /\ exception = "none"
    /\ pc # "raised"
    /\ Returned => IsList(result)
    /\ (Returned /\ ~ValidTop) => result = PyList(<<>>)

C3_EmptyOnInvalidAndTerminates ==
    /\ []C3_Safe
    /\ (pc = "entry") ~> Returned

C3_Witness ==
    /\ Returned
    /\ ~IsDict(user_permissions)
    /\ IsList(effective_admin_permissions)
    /\ result = PyList(<<>>)

\* C4: a user whose value is no list is never returned, and the returned
\* list is the one the function gives for the users without those entries.
WellFormedOnly(u) ==
    IF IsDict(u)
    THEN PyDict(SelectSeq(u.items, LAMBDA e : e.permissions.kind = "list"))
    ELSE u

C4_MalformedIgnored ==
    Returned =>
        /\ IsDict(user_permissions) =>
               \A k \in OtherEntries : Items[k].user \notin ResultSet
        /\ result = FindShadowAdmins(WellFormedOnly(user_permissions),
                                     effective_admin_permissions)

\* a malformed entry comes first and a later user still qualifies
C4_Witness ==
    /\ Returned /\ ValidTop
    /\ Len(Items) = 2
    /\ 1 \in OtherEntries
    /\ result.elems = <<Items[2].user>>

\* C5: the returned list is a subsequence of the keys of users in their
\* iteration order (same relative order, no repeats, only keys of users).
IsSubsequence(r, ks) ==
    \E f \in [1..Len(r) -> 1..Len(ks)] :
        /\ \A a, b \in 1..Len(r) : a < b => f[a] < f[b]
        /\ \A a \in 1..Len(r) : r[a] = ks[f[a]]

C5_OrderPreserved ==
    (Returned /\ IsDict(user_permissions)) => IsSubsequence(result.elems, Keys)

C5_Witness ==
    /\ Returned /\ ValidTop
    /\ Len(result.elems) = 2
    /\ result.elems = Keys
    /\ AdminElems # <<>>

\* C8 as stated: one info per returned user, one warning per user whose
\* value is no list, one error per malformed argument (two when both are
\* malformed), no info or warning when an argument is malformed.
CallLog == SubSeq(log, mark + 1, Len(log))
Count(level) == Cardinality({k \in 1..Len(CallLog) : CallLog[k].level = level})
BadArgs ==
    (IF IsDict(user_permissions) THEN 0 ELSE 1)
    + (IF IsList(effective_admin_permissions) THEN 0 ELSE 1)

C8_OneErrorPerMalformedInput ==
    Returned =>
        /\ Count("INFO") = Len(result.elems)
        /\ Count("WARNING") = (IF ValidTop THEN Cardinality(OtherEntries) ELSE 0)
        /\ Count("ERROR") = BadArgs

\* C8 amended: a call with a malformed argument emits exactly one error, for
\* the first failing check (users before admin permissions), and nothing
\* else; a call with well-formed arguments emits no error, one info per
\* returned user and one warning per user whose value is no list.
C8_SignalCounts ==
    Returned =>
        /\ Count("INFO") = Len(result.elems)
        /\ Count("WARNING") = (IF ValidTop THEN Cardinality(OtherEntries) ELSE 0)
        /\ Count("ERROR") = (IF ValidTop THEN 0 ELSE 1)
        /\ ~IsDict(user_permissions) =>
               CallLog = <<Signal("ERROR", "invalid_users", "")>>
        /\ (IsDict(user_permissions) /\ ~IsList(effective_admin_permissions)) =>
               CallLog = <<Signal("ERROR", "invalid_admin", "")>>

\* one user is skipped with a warning, the other is reported
C8_Witness ==
    /\ Returned /\ ValidTop
    /\ Count("WARNING") = 1
    /\ Count("INFO") = 1
    /\ Len(CallLog) = 2

\* C9: no step of the function changes either argument, and a later call on
\* the same arguments returns what the earlier call returned.
C9_InputsUntouched ==
    /\ [][/\ user_permissions' = user_permissions
          /\ effective_admin_permissions' = effective_admin_permissions]_vars
    /\ [](Returned /\ calls > 1 => result = prev_result)

C9_Witness ==
    /\ Returned
    /\ calls = MaxCalls
    /\ result.elems # <<>>
    /\ OtherEntries # {}
    /\ result = prev_result

\* ------------------------------------------------- properties of main()
Exited == main_pc = "exited"
NothingShown == written = Pending /\ console = Pending
                  /\ "save" \notin SetOf(effects) /\ "display" \notin SetOf(effects)
UserDocNotMapping == user_file.status = "ok" /\ ~IsDict(user_file.data)
AdminPermissionsNotList ==
    /\ admin_file.status = "ok"
    /\ ~(IsDict(admin_file.data) /\ IsList(GetPermissions(admin_file.data)))
LoadFails == user_file.status # "ok" \/ admin_file.status # "ok"

\* C6: when the user-permissions document is no mapping, or the admin
\* permissions are no list, main exits with an error and neither saves nor
\* displays a result.
C6_WrongKindIsFatal ==
    (UserDocNotMapping \/ AdminPermissionsNotList) =>
        /\ NothingShown
        /\ Exited => exit_status # 0

\* C7: when a file cannot be loaded or parsed, or the admin document has no
\* list under `permissions` (also when it is no mapping), main exits with a
\* non-zero status, the function is never called, nothing is saved or shown.
C7_LoadOrFormatFailureExits ==
    (LoadFails \/ AdminPermissionsNotList) =>
        /\ main_pc \in {"start", "loaded", "exited"}
        /\ Exited => exit_status # 0
        /\ pc = "idle"
        /\ calls = 0
        /\ effects = <<>>
        /\ NothingShown

\* the admin document is a JSON list: .get fails and the process exits
C7_Witness ==
    /\ Exited
    /\ user_file.status = "ok" /\ IsDict(user_file.data)
    /\ admin_file.status = "ok" /\ admin_file.data.kind = "list"
    /\ exit_status # 0
    /\ calls = 0

\* C10: once both documents are loaded and `permissions` is a list, the
\* function runs exactly once, then the result is saved iff an output file
\* was given (also when the result is empty), then it is displayed; a failed
\* write is reported, the result is still displayed and the exit status is 0.
Validated ==
    /\ user_file.status = "ok" /\ ~IsNone(user_file.data)
    /\ admin_file.status = "ok"
    /\ IsDict(admin_file.data) /\ IsList(GetPermissions(admin_file.data))
SaveEffects ==
    IF ~Truthy(output_file) THEN <<>>
    ELSE IF fs_writable THEN <<"save">>
    ELSE <<"save_failed">>
IsPrefix(a, b) == Len(a) <= Len(b) /\ a = SubSeq(b, 1, Len(a))
Shown(r) ==
    IF r.elems = <<>> THEN [kind |-> "notice", elems |-> <<>>]
    ELSE [kind |-> "table", elems |-> r.elems]

C10_EvaluateSaveDisplay ==
    Validated =>
        /\ IsPrefix(effects, <<"evaluate">> \o SaveEffects \o <<"display">>)
        /\ calls <= 1
        /\ Exited =>
            /\ effects = <<"evaluate">> \o SaveEffects \o <<"display">>
            /\ calls = 1
            /\ exit_status = 0
            /\ console = Shown(result)
            /\ written = (IF SaveEffects = <<"save">> THEN result ELSE Pending)
            /\ SaveEffects = <<"save_failed">> =>
                   \E k \in 1..Len(log) : log[k] = Signal("ERROR", "save_failed", "")

\* the write fails, the (non-empty) result is still displayed, exit status 0
C10_Witness ==
    /\ Validated /\ Exited
    /\ effects = <<"evaluate", "save_failed", "display">>
    /\ console.kind = "table"
    /\ exit_status = 0

C10_WitnessEmptySaved ==
    /\ Validated /\ Exited
    /\ effects = <<"evaluate", "save", "display">>
    /\ written = PyList(<<>>)
====
